---- MODULE Spec2Model ----
(***************************************************************************)
(* G-Pilot backend: the free-first provider chain of AIService and the     *)
(* step aggregation of DocService.                                         *)
(*                                                                         *)
(* Text is a sequence of characters.  A character is written as a short    *)
(* ASCII token: a Chinese character by its pinyin ("ye" "mian" "de" for    *)
(* the three characters of the location anchor), the full-width comma as   *)
(* ",", the full-width stop as ".", the ideographic comma as "dun", a      *)
(* blank as " ".  A word whose letters never matter to the code ("click",  *)
(* a page name, an id) is one token.                                       *)
(***************************************************************************)
EXTENDS Integers, Sequences, FiniteSets, TLC

VARIABLES
    cfg,            \* AIService.cfg: the configuration the service was constructed with
    llmProviders,   \* table llm_providers, one row per provider name (or NoRow)
    upserts,        \* number of UpsertLLMProvider calls so far
    project,        \* the project row of the session
    session,        \* the recording session row
    steps,          \* table recording_steps of the session, in creation order
    screenshots,    \* table screenshots of the session, in creation order
    result,         \* what the last operation returned to its caller
    tieOrder,       \* how the database orders rows of equal step_index
    docs,           \* table generated_documents, in creation order
    gen             \* the running GenerateDoc requests: worker, channel, reader

vars == <<cfg, llmProviders, upserts, project, session, steps, screenshots, result,
          tieOrder, docs, gen>>

\* the generated documents and the requests generating them
genVars == <<docs, gen>>

\* the tables of a recording
docVars == <<project, session, steps, screenshots>>

NoRow == [none |-> TRUE]

\* ------------------------------------------------------------------ bounds
MaxUpserts == 2

\* the steps a recording session gets
MaxSteps == 5

\* ------------------------------------------------------------------ strings
Whitespace == {" ", "LF"}

\* strings.Index(s, sub): position (1-based) of the first occurrence, 0 if none
IndexFrom(s, sub) ==
    LET n == Len(s)
        m == Len(sub)
        hits == {i \in 1..(n - m + 1) : \A j \in 1..m : s[i + j - 1] = sub[j]}
    IN  IF hits = {} THEN 0 ELSE CHOOSE i \in hits : \A k \in hits : i <= k

\* strings.Contains(s, sub)
Contains(s, sub) == IndexFrom(s, sub) # 0

RECURSIVE TrimLeft(_)
TrimLeft(s) ==
    IF s # <<>> /\ Head(s) \in Whitespace THEN TrimLeft(Tail(s)) ELSE s

RECURSIVE TrimRightSet(_, _)
TrimRightSet(s, cut) ==
    IF s # <<>> /\ s[Len(s)] \in cut THEN TrimRightSet(SubSeq(s, 1, Len(s) - 1), cut) ELSE s

\* strings.TrimSpace(s)
TrimSpace(s) == TrimRightSet(TrimLeft(s), Whitespace)

\* ------------------------------------------------------------------ configuration
ProviderNames == <<"ollama", "zhipu", "gemini", "openrouter", "openai">>

ProviderSet == {ProviderNames[i] : i \in 1..Len(ProviderNames)}

\* the providers that LLMConfig gives an API key
KeyedProviders == ProviderSet \ {"ollama"}

\* config.Load: endpoint and model have defaults, an API key is set or empty.
\* The environments tried: no key at all (MockConfigForTest), one free key,
\* one free key with the paid key, every key.
EnvKeySets == {{}, {"gemini"}, {"zhipu", "openai"}, KeyedProviders}

EnvConfigs ==
    {[n \in ProviderSet |->
        [APIKey |-> IF n \in keyed THEN "env-key" ELSE "",
         BaseURL |-> "env-url",
         Model |-> "env-model"]] : keyed \in EnvKeySets}

\* apply(name, setFn) of effectiveCfg: the active row of the provider overrides
\* every field it sets; the ollama row has no key to give
applyRow(c, name) ==
    LET p == llmProviders[name] IN
    IF p = NoRow \/ ~p.IsActive
    THEN c[name]
    ELSE [APIKey  |-> IF name # "ollama" /\ p.APIKey # "" THEN p.APIKey ELSE c[name].APIKey,
          BaseURL |-> IF p.BaseURL # "" THEN p.BaseURL ELSE c[name].BaseURL,
          Model   |-> IF p.Model # "" THEN p.Model ELSE c[name].Model]

effectiveCfg_envOnly == cfg

effectiveCfg == [n \in ProviderSet |-> applyRow(cfg, n)]

\* ------------------------------------------------------------------ UpsertLLMProvider
\* The bodies tried for PUT /llm/providers: for every provider name a key with
\* endpoint and model, and for two of the free providers a key alone, saved as
\* the default provider.
UpsertRequests ==
    {[Name |-> n, APIKey |-> "db-key", BaseURL |-> "db-url", Model |-> "db-model",
      IsDefault |-> FALSE] : n \in ProviderSet}
    \cup {[Name |-> n, APIKey |-> "db-key", BaseURL |-> "", Model |-> "", IsDefault |-> TRUE] :
           n \in {"zhipu", "gemini"}}

UpsertLLMProvider(req) ==
    /\ upserts < MaxUpserts
    /\ upserts' = upserts + 1
    /\ LET old == llmProviders[req.Name]
           row == IF old = NoRow
                  THEN [Name |-> req.Name, APIKey |-> req.APIKey, BaseURL |-> req.BaseURL,
                        Model |-> req.Model, IsDefault |-> req.IsDefault, IsActive |-> TRUE]
                  ELSE [Name |-> old.Name,
                        APIKey |-> IF req.APIKey # "" THEN req.APIKey ELSE old.APIKey,
                        BaseURL |-> IF req.BaseURL # "" THEN req.BaseURL ELSE old.BaseURL,
                        Model |-> IF req.Model # "" THEN req.Model ELSE old.Model,
                        IsDefault |-> req.IsDefault, IsActive |-> TRUE]
       IN  llmProviders' =
             [n \in ProviderSet |->
                IF n = req.Name THEN row
                ELSE IF req.IsDefault /\ llmProviders[n] # NoRow
                     THEN [llmProviders[n] EXCEPT !.IsDefault = FALSE]
                     ELSE llmProviders[n]]
    /\ result' = [op |-> "upsert", name |-> req.Name]
    /\ UNCHANGED <<cfg, docVars, tieOrder, genVars>>

\* ------------------------------------------------------------------ provider adapters
\* What the HTTP exchange with a provider can come to: the transport fails
\* (with or without a timeout), the status is not 200, the body does not
\* decode, the body decodes but holds no answer (no "response" field, an
\* empty "choices" or "candidates" list), or it holds the text of an answer.
ReplyTexts == {<<>>, <<" ">>, <<" ", "answer", "LF">>}

HTTPOutcomes ==
    {[err |-> e, status |-> 0, json |-> FALSE, entries |-> 0, text |-> <<>>] :
        e \in {"network error", "timeout"}}
    \cup {[err |-> "", status |-> s, json |-> FALSE, entries |-> 0, text |-> <<>>] :
        s \in {200, 500}}
    \cup {[err |-> "", status |-> 200, json |-> TRUE, entries |-> 0, text |-> <<>>]}
    \cup {[err |-> "", status |-> 200, json |-> TRUE, entries |-> 1, text |-> t] :
        t \in ReplyTexts}

CallOk(text) == [desc |-> text, err |-> ""]
CallErr(e) == [desc |-> <<>>, err |-> e]

\* callOllama: a decoded body without the "response" field gives the empty text
callOllama(req, c, o) ==
    IF o.err # "" THEN CallErr(o.err)
    ELSE IF o.status # 200 THEN CallErr("ollama status")
    ELSE IF ~o.json THEN CallErr("decode")
    ELSE CallOk(TrimSpace(IF o.entries = 0 THEN <<>> ELSE o.text))

\* callOpenAICompatible, used by callZhipu, callOpenRouter and callOpenAI
callOpenAICompatible(url, model, apiKey, req, o) ==
    IF o.err # "" THEN CallErr(o.err)
    ELSE IF o.status # 200 THEN CallErr("api status")
    ELSE IF ~o.json THEN CallErr("decode")
    ELSE IF o.entries = 0 THEN CallErr("empty response")
    ELSE CallOk(TrimSpace(o.text))

\* callGemini with doGeminiRequest
callGemini(req, c, o) ==
    IF o.err # "" THEN CallErr(o.err)
    ELSE IF o.status # 200 THEN CallErr("gemini status")
    ELSE IF ~o.json THEN CallErr("decode")
    ELSE IF o.entries = 0 THEN CallErr("empty gemini response")
    ELSE CallOk(TrimSpace(o.text))

callZhipu(req, c, o) ==
    callOpenAICompatible(c["zhipu"].BaseURL, c["zhipu"].Model, c["zhipu"].APIKey, req, o)

callOpenRouter(req, c, o) ==
    callOpenAICompatible(c["openrouter"].BaseURL, c["openrouter"].Model,
                         c["openrouter"].APIKey, req, o)

callOpenAI(req, c, o) ==
    callOpenAICompatible(c["openai"].BaseURL, c["openai"].Model, c["openai"].APIKey, req, o)

\* provider.fn(req, eff) of the chain entry called name
callFn(name, req, c, o) ==
    CASE name = "ollama" -> callOllama(req, c, o)
      [] name = "zhipu" -> callZhipu(req, c, o)
      [] name = "gemini" -> callGemini(req, c, o)
      [] name = "openrouter" -> callOpenRouter(req, c, o)
      [] name = "openai" -> callOpenAI(req, c, o)

\* the liveness probe GET /api/tags with its 2 s timeout
ProbeOutcomes == {"timeout", "status 200", "status 500"}

isOllamaAvailableWithCfg(c, probe) == probe = "status 200"

\* ------------------------------------------------------------------ rule-based description
actionMap ==
    ("click" :> <<"dian", "ji">>) @@ ("input" :> <<"shu", "ru">>)
    @@ ("select" :> <<"xuan", "ze">>) @@ ("drag" :> <<"tuo", "zhuai">>)
    @@ ("navigation" :> <<"dao", "hang", "zhi">>) @@ ("scroll" :> <<"gun", "dong">>)
    @@ ("hover" :> <<"xuan", "ting", "zai">>)

\* a Go string that the model keeps as one word, as text
WordText(w) == IF w = "" THEN <<>> ELSE <<w>>

ruleBasedDescription_targetOnly(req) ==
    <<"zai", "[">> \o req.PageTitle \o <<"]", "ye", "mian", ",">>
        \o WordText(req.StepAction) \o <<" ">> \o req.TargetElement

ruleBasedDescription_rawAction(req) ==
    IF req.MaskedText # <<>>
    THEN <<"zai", "[">> \o req.PageTitle \o <<"]", "ye", "mian", ",">>
            \o WordText(req.StepAction) \o <<"[">> \o req.MaskedText \o <<"]">>
    ELSE <<"zai", "[">> \o req.PageTitle \o <<"]", "ye", "mian", ",">>
            \o WordText(req.StepAction) \o <<" ">> \o req.TargetElement

ruleBasedDescription(req) ==
    LET action == IF req.StepAction \in DOMAIN actionMap
                  THEN actionMap[req.StepAction]
                  ELSE WordText(req.StepAction)
    IN  IF req.MaskedText # <<>>
        THEN <<"zai", "[">> \o req.PageTitle \o <<"]", "ye", "mian", ",">>
                \o action \o <<"[">> \o req.MaskedText \o <<"]">>
        ELSE <<"zai", "[">> \o req.PageTitle \o <<"]", "ye", "mian", ",">>
                \o action \o <<" ">> \o req.TargetElement

\* ------------------------------------------------------------------ GenerateStepDescription
\* The requests tried: a click with a masked text, and an action kind that
\* actionMap does not hold, without masked text.
Requests ==
    {[StepAction |-> "click", TargetElement |-> <<"an", "niu">>, PageURL |-> "http://gov/login",
      PageTitle |-> <<"deng", "lu", "ye">>, MaskedText |-> <<"ti", "jiao">>,
      ScreenshotB64 |-> ""],
     [StepAction |-> "tap", TargetElement |-> <<"an", "niu">>, PageURL |-> "http://gov/login",
      PageTitle |-> <<"deng", "lu", "ye">>, MaskedText |-> <<>>,
      ScreenshotB64 |-> ""]}

chain_paidFirst(eff, probe) ==
    << [name |-> "openai", isFree |-> FALSE, enabled |-> eff["openai"].APIKey # ""],
       [name |-> "ollama", isFree |-> TRUE, enabled |-> isOllamaAvailableWithCfg(eff, probe)],
       [name |-> "zhipu", isFree |-> TRUE, enabled |-> eff["zhipu"].APIKey # ""],
       [name |-> "gemini", isFree |-> TRUE, enabled |-> eff["gemini"].APIKey # ""],
       [name |-> "openrouter", isFree |-> TRUE, enabled |-> eff["openrouter"].APIKey # ""] >>

\* the chain literal: name, isFree, enabled (fn is callFn(name, ...))
chain(eff, probe) ==
    << [name |-> "ollama", isFree |-> TRUE, enabled |-> isOllamaAvailableWithCfg(eff, probe)],
       [name |-> "zhipu", isFree |-> TRUE, enabled |-> eff["zhipu"].APIKey # ""],
       [name |-> "gemini", isFree |-> TRUE, enabled |-> eff["gemini"].APIKey # ""],
       [name |-> "openrouter", isFree |-> TRUE, enabled |-> eff["openrouter"].APIKey # ""],
       [name |-> "openai", isFree |-> FALSE, enabled |-> eff["openai"].APIKey # ""] >>

fallbackResponse_error(req) ==
    [resp |-> NoRow, err |-> "all providers failed"]

\* the return after the loop: the rule-based description, no error
fallbackResponse(req) ==
    [resp |-> [Description |-> ruleBasedDescription(req), Provider |-> "rule-based",
               UsedFree |-> TRUE],
     err |-> ""]

\* The loop over the chain from entry i on.  called lists the providers whose fn
\* was called so far, in call order, all of them with an error.  The value is
\* the set of the returns the loop can come to, one per way the calls can end.
RECURSIVE runChain(_, _, _, _, _)
runChain(ch, i, req, eff, called) ==
    IF i > Len(ch)
    THEN {[ret |-> fallbackResponse(req), called |-> called, failed |-> called]}
    ELSE LET provider == ch[i] IN
         IF ~provider.enabled
         THEN runChain(ch, i + 1, req, eff, called)
         ELSE LET returns == {callFn(provider.name, req, eff, o) : o \in HTTPOutcomes}
                  onError == IF \E r \in returns : r.err # ""
                             THEN runChain(ch, i + 1, req, eff, Append(called, provider.name))
                             ELSE {}
                  onSuccess ==
                      {[ret |-> [resp |-> [Description |-> r.desc, Provider |-> provider.name,
                                           UsedFree |-> provider.isFree],
                                 err |-> ""],
                        called |-> Append(called, provider.name),
                        failed |-> called] : r \in {x \in returns : x.err = ""}}
              IN  onError \cup onSuccess

GenerateStepDescription(req, probe) ==
    LET eff == effectiveCfg
        ch == chain(eff, probe)
    IN  /\ \E run \in runChain(ch, 1, req, eff, <<>>) :
              result' = [op |-> "describe", req |-> req,
                         enabled |-> {ch[i].name : i \in {j \in 1..Len(ch) : ch[j].enabled}},
                         resp |-> run.ret.resp, err |-> run.ret.err,
                         called |-> run.called, failed |-> run.failed]
        /\ UNCHANGED <<cfg, llmProviders, upserts, docVars, tieOrder, genVars>>

\* ------------------------------------------------------------------ GetProvidersStatus
\* the slice literal of GetProvidersStatus
statusRoster(eff, probe) ==
    << [ID |-> "ollama", Name |-> "Ollama local (free)",
        Available |-> isOllamaAvailableWithCfg(eff, probe), IsFree |-> TRUE,
        Reason |-> <<"needs a local Ollama running ", eff["ollama"].Model>>],
       [ID |-> "zhipu", Name |-> "Zhipu GLM-4V-Flash (free)",
        Available |-> eff["zhipu"].APIKey # "", IsFree |-> TRUE,
        Reason |-> <<"needs ZHIPU_API_KEY">>],
       [ID |-> "gemini", Name |-> "Google Gemini 2.0 Flash (free tier)",
        Available |-> eff["gemini"].APIKey # "", IsFree |-> TRUE,
        Reason |-> <<"needs GEMINI_API_KEY">>],
       [ID |-> "openrouter", Name |-> "OpenRouter Qwen2.5-VL (free quota)",
        Available |-> eff["openrouter"].APIKey # "", IsFree |-> TRUE,
        Reason |-> <<"needs OPENROUTER_API_KEY">>],
       [ID |-> "openai", Name |-> "OpenAI GPT-4o-mini (paid)",
        Available |-> eff["openai"].APIKey # "", IsFree |-> FALSE,
        Reason |-> <<"paid, needs OPENAI_API_KEY">>] >>

providersStatus_availableOnly(eff, probe) ==
    SelectSeq(statusRoster(eff, probe), LAMBDA e : e.Available)

providersStatus(eff, probe) == statusRoster(eff, probe)

GetProvidersStatus(probe) ==
    /\ result' = [op |-> "status",
                  statuses |-> providersStatus(effectiveCfg, probe)]
    /\ UNCHANGED <<cfg, llmProviders, upserts, docVars, tieOrder, genVars>>

\* ------------------------------------------------------------------ the provider chain router
\* NewAIService(cfg) over an empty llm_providers table
InitRouter ==
    /\ cfg \in EnvConfigs
    /\ llmProviders = [n \in ProviderSet |-> NoRow]
    /\ upserts = 0
    /\ project = NoRow
    /\ session = NoRow
    /\ steps = <<>>
    /\ screenshots = <<>>
    /\ result = [op |-> "init"]
    /\ tieOrder = "rowid"
    /\ docs = <<>>
    /\ gen = <<>>

NextRouter ==
    \/ \E req \in UpsertRequests : UpsertLLMProvider(req)
    \/ \E req \in Requests, probe \in ProbeOutcomes : GenerateStepDescription(req, probe)
    \/ \E probe \in ProbeOutcomes : GetProvidersStatus(probe)

SpecRouter == InitRouter /\ [][NextRouter]_vars

\* ------------------------------------------------------------------ claims on the router
Pos(name) == CHOOSE i \in 1..Len(ProviderNames) : ProviderNames[i] = name

InSeq(x, sq) == \E i \in 1..Len(sq) : sq[i] = x

FreeProviders == ProviderSet \ {"openai"}

\* C1: GenerateStepDescription returns a response and no error whatever the
\* request, the enablement and the outcome of each provider call; when every
\* enabled provider failed, or none is enabled, the response has
\* provider "rule-based" and usedFree true.
C1_DescribeAlwaysAnswers ==
    result.op = "describe" =>
        /\ result.err = ""
        /\ result.resp # NoRow
        /\ (\A p \in result.enabled : InSeq(p, result.failed)) =>
              /\ result.resp.Provider = "rule-based"
              /\ result.resp.UsedFree = TRUE

\* a call in which three or more providers were enabled and every one failed
C1_Witness ==
    /\ result.op = "describe"
    /\ Cardinality(result.enabled) >= 3
    /\ \A p \in result.enabled : InSeq(p, result.failed)
    /\ result.resp.Provider = "rule-based"

\* the enabled providers among the first k of the fixed order, in that order
EnabledUpTo(k) ==
    SelectSeq(SubSeq(ProviderNames, 1, k), LAMBDA n : n \in result.enabled)

\* C2: the enabled providers are called in the order ollama, zhipu, gemini,
\* openrouter, openai, each at most once, and a disabled one never; the
\* response's provider is the first enabled provider whose call succeeded and
\* nothing after it is called; openai is called only after every enabled free
\* provider was called and failed.
C2_ChainOrder ==
    result.op = "describe" =>
        LET called == result.called
            served == result.resp.Provider
        IN  /\ \A i \in 1..Len(called) : called[i] \in result.enabled
            /\ \A i \in 1..(Len(called) - 1) : Pos(called[i]) < Pos(called[i + 1])
            /\ served # "rule-based" =>
                  /\ called = EnabledUpTo(Pos(served))
                  /\ result.failed = SubSeq(called, 1, Len(called) - 1)
            /\ served = "rule-based" =>
                  /\ called = EnabledUpTo(Len(ProviderNames))
                  /\ result.failed = called
            /\ InSeq("openai", called) =>
                  \A p \in result.enabled \cap FreeProviders : InSeq(p, result.failed)

\* the paid provider answered after two or more free providers had failed
C2_Witness ==
    /\ result.op = "describe"
    /\ result.resp.Provider = "openai"
    /\ Len(result.failed) >= 2

\* C3: the response of GenerateStepDescription carries a non-empty description
\* and a provider id among ollama, zhipu, gemini, openrouter, openai and
\* rule-based, whatever text a succeeding provider returns.
C3_NonEmptyDescription ==
    result.op = "describe" =>
        /\ result.resp.Description # <<>>
        /\ result.resp.Provider \in ProviderSet \cup {"rule-based"}

\* C4: with no provider enabled, GenerateStepDescription answers with provider
\* "rule-based", usedFree true and a description that contains the page title
\* and the masked text when there is one, the target element text otherwise.
C4_RuleBasedWhenNoneEnabled ==
    (result.op = "describe" /\ result.enabled = {}) =>
        /\ result.resp.Provider = "rule-based"
        /\ result.resp.UsedFree = TRUE
        /\ Contains(result.resp.Description, result.req.PageTitle)
        /\ IF result.req.MaskedText # <<>>
           THEN Contains(result.resp.Description, result.req.MaskedText)
           ELSE Contains(result.resp.Description, result.req.TargetElement)

\* no key in the environment or in the table, the probe failed, and the request
\* has a masked text
C4_Witness ==
    /\ result.op = "describe"
    /\ result.enabled = {}
    /\ \A p \in KeyedProviders : effectiveCfg[p].APIKey = ""
    /\ result.req.MaskedText # <<>>
    /\ result.req.PageTitle # <<>>
    /\ result.called = <<>>

\* the fields of a status entry other than the availability flag
Fixed(e) == [ID |-> e.ID, Name |-> e.Name, IsFree |-> e.IsFree, Reason |-> e.Reason]

\* C5 as stated: GetProvidersStatus returns five entries in the order ollama,
\* zhipu, gemini, openrouter, openai, and nothing but the availability flag of
\* an entry varies with the configuration: every other field is what it is
\* under the configuration the service was constructed with.
C5_OnlyAvailabilityVaries ==
    result.op = "status" =>
        /\ Len(result.statuses) = Len(ProviderNames)
        /\ \A i \in 1..Len(ProviderNames) :
              /\ result.statuses[i].ID = ProviderNames[i]
              /\ Fixed(result.statuses[i]) = Fixed(statusRoster(cfg, "timeout")[i])

\* C5 as amended: five entries in the fixed order whatever the enablement; id,
\* display name and free-tier flag of an entry never vary; the reason text
\* never varies either, but for ollama's, which names the model configured at
\* the time of the call (the model of the active ollama row when it has one).
C5_FixedRoster ==
    result.op = "status" =>
        /\ Len(result.statuses) = Len(ProviderNames)
        /\ \A i \in 1..Len(ProviderNames) :
              LET e == result.statuses[i]
                  d == statusRoster(cfg, "timeout")[i]
                  row == llmProviders["ollama"]
              IN  /\ e.ID = ProviderNames[i]
                  /\ e.Name = d.Name
                  /\ e.IsFree = d.IsFree
                  /\ e.ID # "ollama" => e.Reason = d.Reason
                  /\ e.ID = "ollama" =>
                        e.Reason = <<d.Reason[1],
                                     IF row # NoRow /\ row.IsActive /\ row.Model # ""
                                     THEN row.Model ELSE cfg["ollama"].Model>>

\* a status list with an unavailable and an available provider, after the
\* model of ollama was changed in the table
C5_Witness ==
    /\ result.op = "status"
    /\ \E i, j \in 1..Len(result.statuses) :
          result.statuses[i].Available /\ ~result.statuses[j].Available
    /\ llmProviders["ollama"] # NoRow
    /\ result.statuses[1].Reason[2] = "db-model"

\* an active row of the provider with a non-empty key is in the table
SavedKey(p) ==
    /\ llmProviders[p] # NoRow
    /\ llmProviders[p].IsActive
    /\ llmProviders[p].APIKey # ""

\* C6: every call of GenerateStepDescription and of GetProvidersStatus takes the
\* enablement of a keyed provider from the configuration at the time of the
\* call: the provider is enabled (available) exactly if an active row with a
\* key was saved for it or the service was constructed with a key for it, so
\* a saved key makes it enabled although the service was constructed without.
C6_FreshConfiguration ==
    \A p \in KeyedProviders :
        /\ result.op = "status" =>
              (result.statuses[Pos(p)].Available <=> (SavedKey(p) \/ cfg[p].APIKey # ""))
        /\ result.op = "describe" =>
              (p \in result.enabled <=> (SavedKey(p) \/ cfg[p].APIKey # ""))

\* gemini is available after its key was saved, the service having none for it
C6_Witness ==
    /\ result.op = "status"
    /\ cfg["gemini"].APIKey = ""
    /\ SavedKey("gemini")
    /\ result.statuses[Pos("gemini")].Available

\* ------------------------------------------------------------------ recording steps
\* The id of the n-th row of a table (a UUID in the code: unique, nothing else).
StepID(n) == <<"step", n>>
ScreenshotRowID(n) == <<"shot", n>>

SessionID == "session-1"

\* page titles and the pieces of the sentence the content script writes into
\* target_element: "zai <page> ye mian de <location>, <verb> gong neng wei
\* <component> de <kind><tail>, shi xian <purpose>." ("kj" is the kind of control;
\* an input has the verb "zai" and the tail "zhong lu ru le ye wu xin xi")
PageA == <<"ying", "ye", "zhi", "zhao">>
PageB == <<"shou", "ye">>
FormArea == <<"biao", "dan", "tian", "xie", "qu">>
Toolbar == <<"cao", "zuo", "gong", "ju", "lan">>

InputTail == <<" ", "zhong", "lu", "ru", "le", "ye", "wu", "xin", "xi">>

Semantic(page, location, verbPhrase, component, tail, purposeText) ==
    <<"zai", " ">> \o page \o <<" ", "ye", "mian", "de", " ">> \o location \o <<",">>
        \o verbPhrase \o <<"gong", "neng", "wei", " ">> \o component \o <<" ", "de", " ", "kj">>
        \o tail \o <<",", "shi", "xian", " ">> \o purposeText \o <<".">>

\* The bodies tried for POST /sessions/:id/steps.  step_index 0 is "not given".
StepRequests ==
    { \* a click on a plain element: no landmark phrase in the text
      [StepIndex |-> 0, Action |-> "click", TargetSelector |-> <<"#", "submit">>,
       TargetXPath |-> <<"/", "button">>, TargetElement |-> <<"ti", "jiao", " ", "(button)">>,
       MaskedText |-> <<"ti", "jiao">>, PageURL |-> <<"http://gov/apply">>,
       PageTitle |-> PageA, ScreenshotDataURL |-> <<>>,
       Timestamp |-> 1700000000, InputValue |-> <<>>, IsMasked |-> FALSE],
      \* an input in the form area of page A, with a screenshot
      [StepIndex |-> 0, Action |-> "input", TargetSelector |-> <<"#", "name">>,
       TargetXPath |-> <<"/", "input">>,
       TargetElement |-> Semantic(PageA, FormArea, <<"zai">>, <<"xing", "ming">>, InputTail,
                                  <<"tian", "xie", "xin", "xi">>),
       MaskedText |-> <<"[name]">>, PageURL |-> <<"http://gov/apply">>,
       PageTitle |-> PageA, ScreenshotDataURL |-> <<"data:image/jpeg;base64", ",", "AAAA">>,
       Timestamp |-> 1700000000, InputValue |-> <<"***">>, IsMasked |-> TRUE],
      \* a click in the toolbar of page A, with a screenshot
      [StepIndex |-> 0, Action |-> "click", TargetSelector |-> <<"#", "save">>,
       TargetXPath |-> <<"/", "button">>,
       TargetElement |-> Semantic(PageA, Toolbar, <<"dian", "ji", "le">>, <<"bao", "cun">>, <<>>,
                                  <<"ti", "jiao", "biao", "dan">>),
       MaskedText |-> <<"bao", "cun">>, PageURL |-> <<"http://gov/apply">>,
       PageTitle |-> PageA, ScreenshotDataURL |-> <<"data:image/jpeg;base64", ",", "BBBB">>,
       Timestamp |-> 1700000000, InputValue |-> <<>>, IsMasked |-> FALSE],
      \* a navigation without any text, sent with step_index 1
      [StepIndex |-> 1, Action |-> "navigation", TargetSelector |-> <<>>,
       TargetXPath |-> <<>>, TargetElement |-> <<>>,
       MaskedText |-> <<>>, PageURL |-> <<"http://gov/">>,
       PageTitle |-> PageB, ScreenshotDataURL |-> <<>>,
       Timestamp |-> 1700000000, InputValue |-> <<>>, IsMasked |-> FALSE] }

\* The bodies tried for the n-th POST: the client numbers a step itself only
\* once, for the third step, which then shares index 1 with the first, and
\* from the fourth step on it stays clear of the toolbar
StepRequestsFor(n) ==
    IF n = 3 THEN StepRequests
    ELSE {req \in StepRequests :
            /\ req.StepIndex = 0
            /\ n > 3 => ~Contains(req.TargetElement, Toolbar)}

\* the step and screenshot tables t after CreateStep stored the body req: the
\* index is counted when not given, the row is created, and a screenshot sent
\* along becomes a row of its own that the step then refers to
recordStep(t, req) ==
    LET stepIndex == IF req.StepIndex = 0 THEN Len(t.steps) + 1 ELSE req.StepIndex
        id == StepID(Len(t.steps) + 1)
        shot == ScreenshotRowID(Len(t.screenshots) + 1)
        hasShot == req.ScreenshotDataURL # <<>>
        step == [ID |-> id, SessionID |-> SessionID, StepIndex |-> stepIndex,
                 Action |-> req.Action, TargetSelector |-> req.TargetSelector,
                 TargetXPath |-> req.TargetXPath, TargetElement |-> req.TargetElement,
                 MaskedText |-> req.MaskedText, PageURL |-> req.PageURL,
                 PageTitle |-> req.PageTitle, Timestamp |-> req.Timestamp,
                 InputValue |-> req.InputValue, IsMasked |-> req.IsMasked,
                 ScreenshotID |-> IF hasShot THEN shot ELSE <<>>,
                 AIDescription |-> <<>>, IsEdited |-> FALSE]
    IN  [id |-> id,
         steps |-> Append(t.steps, step),
         screenshots |->
             IF hasShot
             THEN Append(t.screenshots, [ID |-> shot, SessionID |-> SessionID, StepID |-> id,
                                         DataURL |-> req.ScreenshotDataURL])
             ELSE t.screenshots]

CreateStep(req) ==
    /\ Len(steps) < MaxSteps
    /\ LET t == recordStep([steps |-> steps, screenshots |-> screenshots], req)
       IN  /\ steps' = t.steps
           /\ screenshots' = t.screenshots
           /\ result' = [op |-> "createStep", id |-> t.id]
    /\ UNCHANGED <<cfg, llmProviders, upserts, project, session, tieOrder, genVars>>

\* The bodies tried for PATCH /sessions/:id/steps/:stepId: an edited
\* description, and the edited flag alone (is_edited is a *bool: "nil" is absent).
UpdateRequests ==
    {[AIDescription |-> <<"shou", "dong", "miao", "shu">>, IsEdited |-> "true"],
     [AIDescription |-> <<>>, IsEdited |-> "nil"]}

\* the step the editor is tried on: the first created
UpdateTargets == {StepID(1)}

UpdateStep_wholeRow(stepId, req) ==
    /\ steps' =
          [i \in 1..Len(steps) |->
              IF steps[i].ID # stepId THEN steps[i]
              ELSE [steps[i] EXCEPT
                      !.AIDescription = req.AIDescription,
                      !.IsEdited = req.IsEdited = "true",
                      !.MaskedText = <<>>]]
    /\ result' = [op |-> "updateStep", id |-> stepId]
    /\ UNCHANGED <<cfg, llmProviders, upserts, project, session, screenshots, tieOrder, genVars>>

UpdateStep(stepId, req) ==
    /\ steps' =
          [i \in 1..Len(steps) |->
              IF steps[i].ID # stepId THEN steps[i]
              ELSE [steps[i] EXCEPT
                      !.AIDescription = IF req.AIDescription # <<>> THEN req.AIDescription ELSE @,
                      !.IsEdited = IF req.IsEdited # "nil" THEN req.IsEdited = "true" ELSE @]]
    /\ result' = [op |-> "updateStep", id |-> stepId]
    /\ UNCHANGED <<cfg, llmProviders, upserts, project, session, screenshots, tieOrder, genVars>>

\* ------------------------------------------------------------------ BuildDocument
locAnchor == <<"ye", "mian", "de", " ">>
compAnchor == <<"gong", "neng", "wei", " ">>
purposeAnchor == <<"shi", "xian", " ">>

\* t[idx+len(anchor):] for an anchor found at idx
After(t, idx, anchor) == SubSeq(t, idx + Len(anchor), Len(t))

\* parseStep, location: the text between "ye mian de " and the next comma
locationOf(t) ==
    LET locIdx == IndexFrom(t, locAnchor)
        locSub == After(t, locIdx, locAnchor)
        locEnd == IndexFrom(locSub, <<",">>)
    IN  IF locIdx # 0 /\ locEnd # 0
        THEN TrimSpace(SubSeq(locSub, 1, locEnd - 1))
        ELSE <<"ye", "mian", "qu", "yu">>

\* parseStep, compName: the text between "gong neng wei " and the next " de"
compNameOf(t) ==
    LET compIdx == IndexFrom(t, compAnchor)
        compSub == After(t, compIdx, compAnchor)
        compEnd == IndexFrom(compSub, <<" ", "de">>)
    IN  IF compIdx # 0 /\ compEnd # 0
        THEN TrimSpace(SubSeq(compSub, 1, compEnd - 1))
        ELSE <<"zu", "jian">>

\* parseStep, purpose: the text after "shi xian ", without the closing stop
purposeOf(t) ==
    LET purIdx == IndexFrom(t, purposeAnchor)
    IN  IF purIdx # 0
        THEN TrimRightSet(TrimSpace(After(t, purIdx, purposeAnchor)), {"."})
        ELSE <<"ye", "wu", "jiao", "hu">>

verbOf_actionFirst(t, action) ==
    CASE action = "click" -> <<"dian", "ji">>
      [] action = "input" -> <<"lu", "ru">>
      [] action = "select" -> <<"xuan", "ze">>
      [] OTHER -> IF Contains(t, <<"lu", "ru", "le">>) THEN <<"lu", "ru">>
                  ELSE IF Contains(t, <<"dian", "ji", "le">>) THEN <<"dian", "ji">>
                  ELSE IF Contains(t, <<"xuan", "ze", "le">>) THEN <<"xuan", "ze">>
                  ELSE IF Contains(t, <<"qie", "huan", "dao">>) THEN <<"qie", "huan", "dao">>
                  ELSE <<"cao", "zuo">>

\* parseStep, verb: from the text, or else from the action kind
verbOf(t, action) ==
    IF Contains(t, <<"lu", "ru", "le">>) THEN <<"lu", "ru">>
    ELSE IF Contains(t, <<"qie", "huan", "dao">>) THEN <<"qie", "huan", "dao">>
    ELSE IF Contains(t, <<"xuan", "ze", "le">>) THEN <<"xuan", "ze">>
    ELSE IF Contains(t, <<"dian", "ji", "le">>) THEN <<"dian", "ji">>
    ELSE CASE action = "click" -> <<"dian", "ji">>
           [] action = "input" -> <<"lu", "ru">>
           [] action = "select" -> <<"xuan", "ze">>
           [] OTHER -> <<"cao", "zuo">>

parseStep(t, action) ==
    [location |-> locationOf(t), compName |-> compNameOf(t),
     purpose |-> purposeOf(t), verb |-> verbOf(t, action)]

\* strings.Join(parts, sep)
RECURSIVE Join(_, _)
Join(parts, sep) ==
    IF parts = <<>> THEN <<>>
    ELSE IF Len(parts) = 1 THEN parts[1]
    ELSE parts[1] \o sep \o Join(Tail(parts), sep)

\* screenshotMap[id]: the data URL of the screenshot row of the step, "" if none
\* (a later row of the same step overwrites an earlier one)
screenshotMap(id) ==
    LET rows == {i \in 1..Len(screenshots) : screenshots[i].StepID = id}
    IN  IF rows = {} THEN <<>>
        ELSE screenshots[CHOOSE i \in rows : \A j \in rows : j <= i].DataURL

\* The order SQLite gives to rows of equal step_index is not specified, but it
\* is the same for every query over the same rows: by rowid or against it.
TieOrders == {"rowid", "reverse"}

\* row k comes no later than row j under ORDER BY step_index
Precedes(k, j, ties) ==
    \/ steps[k].StepIndex < steps[j].StepIndex
    \/ /\ steps[k].StepIndex = steps[j].StepIndex
       /\ IF ties = "rowid" THEN k <= j ELSE k >= j

\* the listed rows in the order of the query, rows of equal step_index as ties says
RECURSIVE sortRows(_, _)
sortRows(rows, ties) ==
    IF rows = {} THEN <<>>
    ELSE CHOOSE out \in {<<steps[k]>> \o sortRows(rows \ {k}, ties) :
                           k \in {j \in rows : \A m \in rows : Precedes(j, m, ties)}} : TRUE

OrderedBy_unstable(rows) ==
    sortRows(rows, IF result.op = "build" THEN "reverse" ELSE "rowid")

\* Find(&steps) with Order("step_index"): the rows in ascending step_index
OrderedBy(rows) == sortRows(rows, tieOrder)

canMerge_titleOnly(prev, step) == step.PageTitle = prev.PageTitle

\* the merge condition of the grouping loop: same page and same location
canMerge(prev, step) ==
    /\ step.PageTitle = prev.PageTitle
    /\ parseStep(step.TargetElement, step.Action).location
          = parseStep(prev.TargetElement, prev.Action).location

groupDescription_noFallback(group) ==
    IF group[1].AIDescription # <<>> THEN group[1].AIDescription ELSE group[1].TargetElement

\* desc of flushGroup
groupDescription(group) ==
    LET first == group[1]
        merged ==
            LET firstCtx == parseStep(first.TargetElement, first.Action)
                actions == [i \in 1..Len(group) |->
                              LET ctx == parseStep(group[i].TargetElement, group[i].Action)
                              IN  ctx.verb \o <<" ", "[[">> \o ctx.compName \o <<"]]">>]
                lastPurpose ==
                    parseStep(group[Len(group)].TargetElement, group[Len(group)].Action).purpose
            IN  <<"zai", " ">> \o first.PageTitle \o <<" ", "ye", "mian", "de", " ">>
                    \o firstCtx.location \o <<",", "yi", "ci", " ">> \o Join(actions, <<"dun">>)
                    \o <<",", "zui", "zhong", "shi", "xian", " ">> \o lastPurpose \o <<".">>
        desc == IF Len(group) = 1
                THEN IF first.AIDescription # <<>> THEN first.AIDescription
                     ELSE first.TargetElement
                ELSE merged
    IN  IF desc # <<>> THEN desc
        ELSE <<"zai", " ", "[">> \o first.PageTitle \o <<"]", " ", "ye", "mian", "zhi", "xing", " ">>
                \o WordText(first.Action) \o <<" ", "cao", "zuo">>

bizStepOf_firstScreenshot(group) ==
    [StepIndex |-> group[1].StepIndex, Action |-> group[1].Action,
     Description |-> groupDescription(group), TechNote |-> <<>>,
     ScreenshotID |-> group[1].ScreenshotID, ScreenshotURL |-> screenshotMap(group[1].ID),
     PageURL |-> <<>>, PageTitle |-> group[1].PageTitle, IsEdited |-> group[1].IsEdited]

\* bizStep of flushGroup
bizStepOf(group) ==
    LET first == group[1]
        last == group[Len(group)]
    IN  [StepIndex |-> first.StepIndex, Action |-> first.Action,
         Description |-> groupDescription(group), TechNote |-> <<>>,
         ScreenshotID |-> last.ScreenshotID, ScreenshotURL |-> screenshotMap(last.ID),
         PageURL |-> <<>>, PageTitle |-> first.PageTitle, IsEdited |-> first.IsEdited]

\* tStep of flushGroup
techStepOf(s) ==
    [StepIndex |-> s.StepIndex, Action |-> s.Action, Description |-> s.TargetElement,
     TechNote |-> <<"yuan", "su", ":">> \o s.TargetElement \o <<"LF", "XPath", ":">>
                     \o s.TargetXPath \o <<"LF", "CSS", ":">> \o s.TargetSelector
                     \o <<"LF", "Action", ":">> \o WordText(s.Action),
     ScreenshotID |-> s.ScreenshotID, ScreenshotURL |-> screenshotMap(s.ID),
     PageURL |-> s.PageURL, PageTitle |-> s.PageTitle, IsEdited |-> FALSE]

techStepsOf_firstOnly(group) == <<techStepOf(group[1])>>

\* the technical entries flushGroup appends for a group: one per step
techStepsOf(group) == [i \in 1..Len(group) |-> techStepOf(group[i])]

\* flushGroup on the loop state b = (currentGroup, bizSteps, techSteps)
flushGroup(b) ==
    IF Len(b.currentGroup) = 0 THEN b
    ELSE [currentGroup |-> <<>>,
          bizSteps |-> Append(b.bizSteps, bizStepOf(b.currentGroup)),
          techSteps |-> b.techSteps \o techStepsOf(b.currentGroup)]

\* one turn of the grouping loop: the open group is flushed when the step
\* cannot join it, then the step is appended
addStep(b, step) ==
    LET flushed == IF Len(b.currentGroup) > 0 /\ ~canMerge(b.currentGroup[1], step)
                   THEN flushGroup(b) ELSE b
    IN  [flushed EXCEPT !.currentGroup = Append(flushed.currentGroup, step)]

\* the grouping loop from the i-th loaded step on, and the flush after it
\* (the loop state of a turn is a value before the next turn starts)
RECURSIVE groupSteps(_, _, _)
groupSteps(loaded, i, b) ==
    IF i > Len(loaded) THEN flushGroup(b)
    ELSE CHOOSE out \in {groupSteps(loaded, i + 1, next) : next \in {addStep(b, loaded[i])}} :
            TRUE

\* the clock readings tried for GeneratedAt
Times == {"2026-01-01 10:00:00", "2026-01-01 10:00:01"}

sessionFound_any(sessionID) == session # NoRow

\* First(&session, "id = ?", sessionID) finds the row
sessionFound(sessionID) == session # NoRow /\ session.ID = sessionID

sectionsOf_skipEmpty(title, docSteps) ==
    IF docSteps = <<>> THEN <<>>
    ELSE << [SectionIndex |-> 1, Title |-> title, Steps |-> docSteps] >>

\* the one section of a view
sectionsOf(title, docSteps) ==
    << [SectionIndex |-> 1, Title |-> title, Steps |-> docSteps] >>

\* the content BuildDocument returns for a session that was found
documentOf(loaded, now) ==
    LET b == groupSteps(loaded, 1,
                        [currentGroup |-> <<>>, bizSteps |-> <<>>, techSteps |-> <<>>])
    IN  [SessionTitle |-> session.Title,
         ProjectName |-> IF project = NoRow THEN <<>> ELSE project.Name,
         GeneratedAt |-> now,
         BusinessView |->
             sectionsOf(session.Title \o <<" ", "-", " ", "cao", "zuo", "shuo", "ming">>,
                        b.bizSteps),
         TechnicalView |->
             sectionsOf(session.Title \o <<" ", "-", " ", "ji", "shu", "can", "kao">>,
                        b.techSteps)]

\* the views of the build the same caller made just before, if it made one
viewsBefore ==
    IF result.op = "build" /\ result.err = ""
    THEN [BusinessView |-> result.content.BusinessView,
          TechnicalView |-> result.content.TechnicalView]
    ELSE NoRow

BuildDocument(sessionID) ==
    /\ IF ~sessionFound(sessionID)
       THEN result' = [op |-> "build", sessionID |-> sessionID, err |-> "session not found",
                       loaded |-> <<>>, content |-> NoRow, before |-> NoRow]
       ELSE \E now \in Times :
              LET loaded == OrderedBy(1..Len(steps))
              IN  result' = [op |-> "build", sessionID |-> sessionID, err |-> "",
                             loaded |-> loaded, content |-> documentOf(loaded, now),
                             before |-> viewsBefore]
    /\ UNCHANGED <<cfg, llmProviders, upserts, docVars, tieOrder, genVars>>

\* ------------------------------------------------------------------ GenerateMarkdown
RECURSIVE Concat(_)
Concat(parts) == IF parts = <<>> THEN <<>> ELSE parts[1] \o Concat(Tail(parts))

StepHeading_h2(k) == <<"##", " ", "di", " ", ToString(k), " ", "bu", "LF", "LF">>

\* the "### di k bu" heading of a step
StepHeading(k) == <<"###", " ", "di", " ", ToString(k), " ", "bu", "LF", "LF">>

markdownOfStep(step) ==
    StepHeading(step.StepIndex)
        \o step.Description \o <<"LF", "LF">>
        \o (IF step.TechNote # <<>>
            THEN <<"fence", "LF">> \o step.TechNote \o <<"LF", "fence", "LF", "LF">> ELSE <<>>)
        \o (IF step.ScreenshotURL # <<>>
            THEN <<"![", "bu", "zhou", ToString(step.StepIndex), "jie", "tu", "](">> \o step.ScreenshotURL
                    \o <<")", "LF", "LF">>
            ELSE <<>>)
        \o <<"---", "LF", "LF">>

GenerateMarkdown(content, viewType) ==
    LET sections == IF viewType = "technical" THEN content.TechnicalView
                    ELSE content.BusinessView
    IN  <<"#", " ">> \o content.SessionTitle \o <<"LF", "LF">>
        \o <<">", " ", "xiang", "mu", ":">> \o content.ProjectName
        \o <<" ", " ", "LF", ">", " ", "sheng", "cheng", "shi", "jian", ":", content.GeneratedAt,
             "LF", "LF", "---", "LF", "LF">>
        \o (IF viewType = "technical"
            THEN <<"##", " ", "ji", "shu", "can", "kao", "wen", "dang", "LF", "LF">>
            ELSE <<"##", " ", "cao", "zuo", "shuo", "ming", "wen", "dang", "LF", "LF">>)
        \o Concat([i \in 1..Len(sections) |->
                     <<"##", " ">> \o sections[i].Title \o <<"LF", "LF">>
                     \o Concat([j \in 1..Len(sections[i].Steps) |->
                                  markdownOfStep(sections[i].Steps[j])])])

\* ------------------------------------------------------------------ the document builder
\* a project with one session, no step recorded yet
InitDoc ==
    /\ cfg \in {c \in EnvConfigs : \A n \in ProviderSet : c[n].APIKey = ""}
    /\ llmProviders = [n \in ProviderSet |-> NoRow]
    /\ upserts = 0
    /\ project = [ID |-> "project-1", Name |-> <<"zheng", "wu">>]
    /\ session = [ID |-> SessionID, ProjectID |-> "project-1",
                  Title |-> <<"shen", "qing", "liu", "cheng">>, Status |-> "recording",
                  GeneratedDocID |-> <<>>]
    /\ steps = <<>>
    /\ screenshots = <<>>
    /\ result = [op |-> "init"]
    /\ tieOrder \in TieOrders
    /\ docs = <<>>
    /\ gen = <<>>

NextDoc ==
    \/ \E req \in StepRequestsFor(Len(steps) + 1) : CreateStep(req)
    \/ \E stepId \in UpdateTargets, req \in UpdateRequests : UpdateStep(stepId, req)
    \/ \E sessionID \in {SessionID, "nonexistent-id"} : BuildDocument(sessionID)

SpecDoc == InitDoc /\ [][NextDoc]_vars

\* ------------------------------------------------------------------ properties of the document builder
\* the last operation was a BuildDocument that returned a document
Built == result.op = "build" /\ result.err = ""
BizSteps == result.content.BusinessView[1].Steps
TechSteps == result.content.TechnicalView[1].Steps
\* the region inferred for a step
Region(s) == locationOf(s.TargetElement)
SameRun(a, b) == a.PageTitle = b.PageTitle /\ Region(a) = Region(b)

\* the positions of the index-ordered list where a maximal run starts
RunStarts(loaded) ==
    {i \in 1..Len(loaded) : i = 1 \/ ~SameRun(loaded[i - 1], loaded[i])}
\* the first and the last position of the run that starts at the k-th of starts
RunFirst(starts, k) ==
    CHOOSE i \in starts : Cardinality({j \in starts : j < i}) = k - 1
RunLast(starts, n, k) ==
    IF k = Cardinality(starts) THEN n ELSE RunFirst(starts, k + 1) - 1

\* the loaded list is the session's rows in ascending step index
IsIndexOrder(loaded) ==
    /\ Len(loaded) = Len(steps)
    /\ {loaded[i] : i \in 1..Len(loaded)} = {steps[i] : i \in 1..Len(steps)}
    /\ \A i \in 1..(Len(loaded) - 1) : loaded[i].StepIndex <= loaded[i + 1].StepIndex

\* C7: for a session with N steps the technical view has one section with
\* exactly N entries, the i-th being the i-th step in ascending step index
\* (its index, action, text, page and screenshot reference), never merged, and
\* every entry has a non-empty technical note naming the selector and the path.
C7_TechnicalViewOnePerStep ==
    Built =>
        /\ IsIndexOrder(result.loaded)
        /\ Len(result.content.TechnicalView) = 1
        /\ Len(TechSteps) = Len(steps)
        /\ \A i \in 1..Len(TechSteps) :
              LET e == TechSteps[i]
                  s == result.loaded[i]
              IN  /\ e.StepIndex = s.StepIndex
                  /\ e.Action = s.Action
                  /\ e.Description = s.TargetElement
                  /\ e.PageURL = s.PageURL
                  /\ e.PageTitle = s.PageTitle
                  /\ e.ScreenshotID = s.ScreenshotID
                  /\ e.TechNote # <<>>
                  /\ Contains(e.TechNote, <<"XPath", ":">> \o s.TargetXPath)
                  /\ Contains(e.TechNote, <<"CSS", ":">> \o s.TargetSelector)

\* a build of at least three steps, loaded in another order than created, whose
\* business view merged some of them while the technical view kept them all
C7_Witness ==
    /\ Built
    /\ Len(steps) >= 3
    /\ result.loaded # steps
    /\ Len(BizSteps) < Len(steps)
    /\ Len(TechSteps) = Len(steps)

\* C8: the business entries are, in order, the maximal contiguous runs of the
\* index-ordered steps that share page title and inferred region: as many
\* entries as runs, the k-th entry built from exactly the steps of the k-th
\* run, adjacent runs differing in title or region, and at most N entries.
C8_BusinessViewMaximalRuns ==
    Built =>
        LET loaded == result.loaded
            starts == RunStarts(loaded)
            n == Cardinality(starts)
        IN  /\ Len(result.content.BusinessView) = 1
            /\ Len(BizSteps) = n
            /\ Len(BizSteps) <= Len(steps)
            /\ \A k \in 1..n :
                  LET a == RunFirst(starts, k)
                      z == RunLast(starts, Len(loaded), k)
                  IN  /\ \A i \in a..z : SameRun(loaded[a], loaded[i])
                      /\ k < n => ~SameRun(loaded[z], loaded[z + 1])
                      /\ BizSteps[k] = bizStepOf(SubSeq(loaded, a, z))

\* a build that merged a run of two or more steps and kept apart both two runs
\* on the same page in different regions and two runs in the same region on
\* different pages
C8_Witness ==
    /\ Built
    /\ Len(BizSteps) < Len(steps)
    /\ \E i \in 1..(Len(result.loaded) - 1) :
          /\ result.loaded[i].PageTitle = result.loaded[i + 1].PageTitle
          /\ Region(result.loaded[i]) # Region(result.loaded[i + 1])
    /\ \E i \in 1..(Len(result.loaded) - 1) :
          /\ result.loaded[i].PageTitle # result.loaded[i + 1].PageTitle
          /\ Region(result.loaded[i]) = Region(result.loaded[i + 1])

\* the text of the step has none of the landmark phrases
Unmarked(s) ==
    /\ ~Contains(s.TargetElement, locAnchor)
    /\ ~Contains(s.TargetElement, compAnchor)
    /\ ~Contains(s.TargetElement, purposeAnchor)

\* C9: N steps without landmark phrases, numbered 1..N, are never merged: the
\* business view has exactly N entries, the i-th with step index i and a
\* non-empty description, and the business Markdown has the headings of step 1
\* and of step N.
C9_UnmarkedStepsNeverMerged ==
    (/\ Built
     /\ Len(result.loaded) >= 1
     /\ \A i \in 1..Len(result.loaded) :
           Unmarked(result.loaded[i]) /\ result.loaded[i].StepIndex = i)
    =>  LET n == Len(result.loaded)
            md == GenerateMarkdown(result.content, "business")
        IN  /\ Len(BizSteps) = n
            /\ \A i \in 1..n : BizSteps[i].StepIndex = i /\ BizSteps[i].Description # <<>>
            /\ Contains(md, StepHeading(1))
            /\ Contains(md, StepHeading(n))

\* C10: every business entry takes its screenshot id and image URL from the
\* last step of its run and its step index, page title and edited flag from the
\* first; five consecutive steps of one page title and one region give exactly
\* one entry, with the screenshot reference of the fifth.
C10_RunRepresentatives ==
    Built =>
        LET loaded == result.loaded
            starts == RunStarts(loaded)
        IN  /\ Len(BizSteps) = Cardinality(starts)
            /\ \A k \in 1..Len(BizSteps) :
                  LET first == loaded[RunFirst(starts, k)]
                      last == loaded[RunLast(starts, Len(loaded), k)]
                  IN  /\ BizSteps[k].ScreenshotID = last.ScreenshotID
                      /\ BizSteps[k].ScreenshotURL = screenshotMap(last.ID)
                      /\ BizSteps[k].StepIndex = first.StepIndex
                      /\ BizSteps[k].PageTitle = first.PageTitle
                      /\ BizSteps[k].IsEdited = first.IsEdited
            /\ (Len(loaded) = 5 /\ \A i \in 1..5 : SameRun(loaded[1], loaded[i]))
                  => /\ Len(BizSteps) = 1
                     /\ BizSteps[1].ScreenshotID = loaded[5].ScreenshotID
                     /\ BizSteps[1].ScreenshotURL = screenshotMap(loaded[5].ID)

\* five steps in the form area of one page, each with its own screenshot, the
\* first edited by hand: one business entry, index 1, edited, showing the
\* screenshot of the fifth step
C10_Witness ==
    /\ Built
    /\ Len(result.loaded) = 5
    /\ \A i \in 1..5 : Region(result.loaded[i]) = FormArea /\ result.loaded[i].PageTitle = PageA
    /\ Len(BizSteps) = 1
    /\ BizSteps[1].StepIndex = 1
    /\ BizSteps[1].IsEdited
    /\ BizSteps[1].ScreenshotID = ScreenshotRowID(5)
    /\ BizSteps[1].ScreenshotID # result.loaded[1].ScreenshotID
    /\ BizSteps[1].ScreenshotURL # <<>>

\* C11: BuildDocument on an existing session without steps returns no error
\* and a content whose business view and technical view each have exactly one
\* section, numbered 1, with an empty list of steps.
C11_EmptySessionOneEmptySection ==
    (result.op = "build" /\ session # NoRow /\ result.sessionID = session.ID /\ steps = <<>>)
    =>  /\ result.err = ""
        /\ result.content # NoRow
        /\ \A view \in {result.content.BusinessView, result.content.TechnicalView} :
              /\ Len(view) = 1
              /\ view[1].SectionIndex = 1
              /\ view[1].Steps = <<>>

\* a build of the session before any step was recorded
C11_Witness ==
    /\ result.op = "build"
    /\ result.sessionID = SessionID
    /\ result.err = ""
    /\ steps = <<>>

HeadingPositions(md) ==
    {i \in 1..(Len(md) - 6) :
        /\ SubSeq(md, i, i + 3) = <<"###", " ", "di", " ">>
        /\ SubSeq(md, i + 5, i + 6) = <<" ", "bu">>}

\* the numbers k of the headings, from the top of the text down
RECURSIVE HeadingNumbers(_, _)
HeadingNumbers(md, positions) ==
    IF positions = {} THEN <<>>
    ELSE LET first == CHOOSE i \in positions : \A j \in positions : i <= j
         IN  <<md[first + 4]>> \o HeadingNumbers(md, positions \ {first})

\* C14: the business Markdown of a built document has exactly one "### di k bu"
\* heading per business entry, k being the step index of the entry (that of
\* the first step of its run), and the headings come in ascending order of k.
C14_OneHeadingPerBusinessEntry ==
    Built =>
        LET md == GenerateMarkdown(result.content, "business")
        IN  /\ HeadingNumbers(md, HeadingPositions(md))
                 = [i \in 1..Len(BizSteps) |-> ToString(BizSteps[i].StepIndex)]
            /\ \A i \in 1..(Len(BizSteps) - 1) :
                  BizSteps[i].StepIndex <= BizSteps[i + 1].StepIndex

\* a document with several business entries, one of them a merged run, so that
\* the heading numbers skip the steps inside the run
C14_Witness ==
    /\ Built
    /\ Len(BizSteps) >= 2
    /\ \E i \in 1..(Len(BizSteps) - 1) : BizSteps[i + 1].StepIndex > BizSteps[i].StepIndex + 1
    /\ Contains(GenerateMarkdown(result.content, "business"),
                StepHeading(BizSteps[Len(BizSteps)].StepIndex))

\* C19: after any sequence of CreateStep calls the step indices of the session
\* are strictly increasing in creation order, hence pairwise distinct.
C19_StepIndexStrictlyIncreasing ==
    \A i, j \in 1..Len(steps) : i < j => steps[i].StepIndex < steps[j].StepIndex

\* ------------------------------------------------------------------ GenerateDoc and GenerateDocForSession
\* make(chan service.DocGenerateProgress, 20)
ChanCap == 20

\* the steps of the short sessions a batch is run on
MaxBatch == 2

\* a session one step longer than the channel is wide
LongSession == ChanCap + 1

DocID(n) == <<"doc", n>>

\* a GenerateDoc request that has not been made yet
IdleRequest ==
    [handler |-> "idle",      \* idle, rejected, reading, saving, done, gone
     worker |-> "none",       \* none, load, loop, send, final, returned, failed
     loaded |-> <<>>,         \* the ids of the steps the worker loaded, in order
     loadedText |-> <<>>,     \* the descriptions of the loaded rows
     i |-> 0,                 \* the loop index: steps whose event was sent
     pending |-> NoRow,       \* the event the worker is about to send
     ch |-> <<>>,             \* progressCh
     sent |-> <<>>,           \* every event sent on progressCh so far
     delivered |-> <<>>,      \* the progress events the handler wrote to the client
     writes |-> <<>>,         \* the steps whose description write was issued, in order
     writeFailed |-> {},      \* the steps whose description write failed
     docID |-> <<>>,          \* the document this request created
     complete |-> <<>>]       \* the doc_id of the "complete" event, if written

\* DocGenerateProgress of a processed step
stepEvent(current, total, stepID, err) ==
    [Current |-> current, Total |-> total, StepID |-> stepID, Done |-> FALSE, Error |-> err]

doneEvent_counted(total) ==
    [Current |-> total, Total |-> total, StepID |-> <<>>, Done |-> TRUE, Error |-> ""]

\* DocGenerateProgress{Done: true, Total: total}
doneEvent(total) ==
    [Current |-> 0, Total |-> total, StepID |-> <<>>, Done |-> TRUE, Error |-> ""]

\* the row of the step with the given id
stepRow(id) == steps[CHOOSE k \in 1..Len(steps) : steps[k].ID = id]

\* First(&screenshot) by id: the data URL, empty when there is no such row
screenshotData(id) ==
    LET rows == {k \in 1..Len(screenshots) : screenshots[k].ID = id}
    IN  IF rows = {} THEN <<>> ELSE screenshots[CHOOSE k \in rows : TRUE].DataURL

\* the VLMRequest the worker builds for a step
requestOf(step) ==
    [StepAction |-> step.Action, TargetElement |-> step.TargetElement,
     PageURL |-> step.PageURL, PageTitle |-> step.PageTitle,
     MaskedText |-> step.MaskedText,
     ScreenshotB64 |-> IF step.ScreenshotID # <<>> THEN screenshotData(step.ScreenshotID)
                       ELSE <<>>]

\* What is tried while a step is processed: the answer of the ollama probe and
\* whether the store accepts the write.  The faults are tried in the short
\* batches of a single request; elsewhere no provider is up and the store works.
QuietInput == [probe |-> "timeout", write |-> "ok"]
BatchInputs ==
    IF Len(gen) = 1 /\ Len(steps) <= MaxBatch
    THEN {[probe |-> p, write |-> w] : p \in {"timeout", "status 200"}, w \in {"ok", "error"}}
    ELSE {QuietInput}

\* GenerateDoc up to the start of the worker: 404 for an unknown session,
\* otherwise the channel is made and the worker goroutine started
GenerateDoc(r, sessionID) ==
    /\ gen[r].handler = "idle"
    /\ gen' = [gen EXCEPT ![r] =
                 IF sessionFound(sessionID)
                 THEN [@ EXCEPT !.handler = "reading", !.worker = "load"]
                 ELSE [@ EXCEPT !.handler = "rejected"]]
    /\ UNCHANGED <<cfg, llmProviders, upserts, docVars, result, tieOrder, docs>>

WorkerLoad_newestFirst(r, outcome) ==
    /\ gen[r].worker = "load"
    /\ \E rows \in {[k \in 1..Len(steps) |-> steps[Len(steps) + 1 - k]]} :
          gen' = [gen EXCEPT ![r] =
                    IF outcome = "error" THEN [@ EXCEPT !.worker = "failed"]
                    ELSE [@ EXCEPT !.loaded = [k \in 1..Len(rows) |-> rows[k].ID],
                                   !.loadedText = [k \in 1..Len(rows) |-> rows[k].AIDescription],
                                   !.worker = IF Len(rows) = 0 THEN "final" ELSE "loop"]]
    /\ UNCHANGED <<cfg, llmProviders, upserts, docVars, result, tieOrder, docs>>

\* GenerateDocForSession, the query for the steps: an error ends the worker
\* without any event
WorkerLoad(r, outcome) ==
    /\ gen[r].worker = "load"
    /\ \E rows \in {OrderedBy(1..Len(steps))} :
          gen' = [gen EXCEPT ![r] =
                    IF outcome = "error" THEN [@ EXCEPT !.worker = "failed"]
                    ELSE [@ EXCEPT !.loaded = [k \in 1..Len(rows) |-> rows[k].ID],
                                   !.loadedText = [k \in 1..Len(rows) |-> rows[k].AIDescription],
                                   !.worker = IF Len(rows) = 0 THEN "final" ELSE "loop"]]
    /\ UNCHANGED <<cfg, llmProviders, upserts, docVars, result, tieOrder, docs>>

\* one turn of the loop up to the send: the description is generated and
\* written (the outcome of the write is not looked at), the event is made
WorkerStep(r, in) ==
    /\ gen[r].worker = "loop"
    /\ LET id == gen[r].loaded[gen[r].i + 1]
           req == requestOf(stepRow(id))
           eff == effectiveCfg
           total == Len(gen[r].loaded)
       IN  \E ret \in {run.ret : run \in runChain(chain(eff, in.probe), 1, req, eff, <<>>)} :
              IF ret.err # ""
              THEN /\ gen' = [gen EXCEPT ![r].worker = "send",
                                         ![r].pending =
                                             stepEvent(gen[r].i + 1, total, id, ret.err)]
                   /\ steps' = steps
              ELSE /\ gen' = [gen EXCEPT ![r].worker = "send",
                                         ![r].pending = stepEvent(gen[r].i + 1, total, id, ""),
                                         ![r].writes = Append(@, id),
                                         ![r].writeFailed =
                                             IF in.write = "ok" THEN @ ELSE @ \cup {id}]
                   /\ steps' = IF in.write = "ok"
                               THEN [k \in 1..Len(steps) |->
                                       IF steps[k].ID = id
                                       THEN [steps[k] EXCEPT
                                               !.AIDescription = ret.resp.Description]
                                       ELSE steps[k]]
                               ELSE steps
    /\ UNCHANGED <<cfg, llmProviders, upserts, project, session, screenshots, result,
                   tieOrder, docs>>

WorkerSend_narrow(r) ==
    /\ gen[r].worker = "send"
    /\ Len(gen[r].ch) < 1
    /\ gen' = [gen EXCEPT ![r] =
                 [@ EXCEPT !.ch = Append(@, gen[r].pending),
                           !.sent = Append(@, gen[r].pending),
                           !.pending = NoRow,
                           !.i = @ + 1,
                           !.worker = IF gen[r].i + 1 = Len(gen[r].loaded) THEN "final"
                                      ELSE "loop"]]
    /\ UNCHANGED <<cfg, llmProviders, upserts, docVars, result, tieOrder, docs>>

WorkerSend_again(r) ==
    /\ gen[r].worker = "send"
    /\ Len(gen[r].ch) < ChanCap
    /\ gen' = [gen EXCEPT ![r] =
                 [@ EXCEPT !.ch = Append(@, gen[r].pending),
                           !.sent = Append(@, gen[r].pending),
                           !.pending = NoRow,
                           !.i = IF Len(gen[r].sent) = 0 THEN @ ELSE @ + 1,
                           !.worker = IF Len(gen[r].sent) # 0
                                         /\ gen[r].i + 1 = Len(gen[r].loaded)
                                      THEN "final" ELSE "loop"]]
    /\ UNCHANGED <<cfg, llmProviders, upserts, docVars, result, tieOrder, docs>>

\* progressCh <- the event of the step: waits while the channel is full
WorkerSend(r) ==
    /\ gen[r].worker = "send"
    /\ Len(gen[r].ch) < ChanCap
    /\ gen' = [gen EXCEPT ![r] =
                 [@ EXCEPT !.ch = Append(@, gen[r].pending),
                           !.sent = Append(@, gen[r].pending),
                           !.pending = NoRow,
                           !.i = @ + 1,
                           !.worker = IF gen[r].i + 1 = Len(gen[r].loaded) THEN "final"
                                      ELSE "loop"]]
    /\ UNCHANGED <<cfg, llmProviders, upserts, docVars, result, tieOrder, docs>>

WorkerFinish_silent(r) ==
    /\ gen[r].worker = "final"
    /\ gen' = [gen EXCEPT ![r].worker = "returned"]
    /\ UNCHANGED <<cfg, llmProviders, upserts, docVars, result, tieOrder, docs>>

\* progressCh <- the terminal event, then return nil
WorkerFinish(r) ==
    /\ gen[r].worker = "final"
    /\ Len(gen[r].ch) < ChanCap
    /\ gen' = [gen EXCEPT ![r] =
                 [@ EXCEPT !.ch = Append(@, doneEvent(Len(gen[r].loaded))),
                           !.sent = Append(@, doneEvent(Len(gen[r].loaded))),
                           !.worker = "returned"]]
    /\ UNCHANGED <<cfg, llmProviders, upserts, docVars, result, tieOrder, docs>>

\* the document row SaveGeneratedDoc creates
docRow(id, content) ==
    [ID |-> id, SessionID |-> session.ID, ProjectID |-> session.ProjectID,
     Status |-> "draft", BusinessView |-> content.BusinessView,
     TechnicalView |-> content.TechnicalView]

HandlerReceive_eager(r) ==
    /\ gen[r].handler = "reading"
    /\ gen[r].ch # <<>>
    /\ gen' = [gen EXCEPT ![r] =
                 [@ EXCEPT !.ch = Tail(@),
                           !.delivered = Append(@, Head(gen[r].ch)),
                           !.handler = "building"]]
    /\ UNCHANGED <<cfg, llmProviders, upserts, docVars, result, tieOrder, docs>>

\* one turn of the handler's loop: the event is taken from the channel and
\* written to the client; the terminal event ends the reading
HandlerReceive(r) ==
    /\ gen[r].handler = "reading"
    /\ gen[r].ch # <<>>
    /\ gen' = [gen EXCEPT ![r] =
                 [@ EXCEPT !.ch = Tail(@),
                           !.delivered = Append(@, Head(gen[r].ch)),
                           !.handler = IF Head(gen[r].ch).Done THEN "building" ELSE "reading"]]
    /\ UNCHANGED <<cfg, llmProviders, upserts, docVars, result, tieOrder, docs>>

\* after the terminal event: the document is built and SaveGeneratedDoc
\* creates its row; when the row cannot be created the handler ends
HandlerBuild(r, create) ==
    /\ gen[r].handler = "building"
    /\ IF create = "error"
       THEN gen' = [gen EXCEPT ![r].handler = "done"] /\ docs' = docs
       ELSE \E now \in Times, loaded \in {OrderedBy(1..Len(steps))} :
              \E content \in {documentOf(loaded, now)} :
                 LET id == DocID(Len(docs) + 1)
                 IN  /\ gen' = [gen EXCEPT ![r].handler = "saving", ![r].docID = id]
                     /\ docs' = Append(docs, docRow(id, content))
    /\ UNCHANGED <<cfg, llmProviders, upserts, docVars, result, tieOrder>>

\* the rest of SaveGeneratedDoc: the session refers to the new document
HandlerSaveRef(r) ==
    /\ gen[r].handler = "saving"
    /\ session' = [session EXCEPT !.GeneratedDocID = gen[r].docID]
    /\ gen' = [gen EXCEPT ![r].handler = "completing"]
    /\ UNCHANGED <<cfg, llmProviders, upserts, project, steps, screenshots, result,
                   tieOrder, docs>>

\* the save returned without error: the status of the session becomes
\* "completed" and the "complete" event with the doc_id is written
HandlerComplete(r) ==
    /\ gen[r].handler = "completing"
    /\ session' = [session EXCEPT !.Status = "completed"]
    /\ gen' = [gen EXCEPT ![r].handler = "done", ![r].complete = gen[r].docID]
    /\ UNCHANGED <<cfg, llmProviders, upserts, project, steps, screenshots, result,
                   tieOrder, docs>>

\* the reader of progressCh stops before the terminal event
HandlerAbandon(r) ==
    /\ gen[r].handler = "reading"
    /\ gen' = [gen EXCEPT ![r].handler = "gone"]
    /\ UNCHANGED <<cfg, llmProviders, upserts, docVars, result, tieOrder, docs>>

\* the bodies of the steps of a recorded session: inputs in the form area with
\* a screenshot, alternating with clicks on a plain element
RecordedRequest(n) ==
    CHOOSE req \in StepRequests :
        /\ req.StepIndex = 0
        /\ IF n % 2 = 1 THEN req.Action = "input"
           ELSE req.Action = "click" /\ req.ScreenshotDataURL = <<>>

\* the tables after n CreateStep calls
RECURSIVE Recorded(_)
Recorded(n) ==
    IF n = 0 THEN [steps |-> <<>>, screenshots |-> <<>>]
    ELSE recordStep(Recorded(n - 1), RecordedRequest(n))

\* the sessions batches are run on, with the number of GenerateDoc requests:
\* short sessions with two requests at a time, a long one with a single request
BatchShapes ==
    {[steps |-> n, requests |-> 2] : n \in 0..MaxBatch}
        \cup {[steps |-> n, requests |-> 1] : n \in (1..MaxBatch) \cup {LongSession}}

InitBatch ==
    /\ cfg \in {c \in EnvConfigs : \A n \in ProviderSet : c[n].APIKey = ""}
    /\ llmProviders = [n \in ProviderSet |-> NoRow]
    /\ upserts = 0
    /\ project = [ID |-> "project-1", Name |-> <<"zheng", "wu">>]
    /\ session = [ID |-> SessionID, ProjectID |-> "project-1",
                  Title |-> <<"shen", "qing", "liu", "cheng">>, Status |-> "recording",
                  GeneratedDocID |-> <<>>]
    /\ \E shape \in BatchShapes :
          /\ steps = Recorded(shape.steps).steps
          /\ screenshots = Recorded(shape.steps).screenshots
          /\ gen = [r \in 1..shape.requests |-> IdleRequest]
    /\ result = [op |-> "init"]
    /\ tieOrder = "rowid"
    /\ docs = <<>>

NextBatch ==
    \/ \E r \in DOMAIN gen, sessionID \in {SessionID, "nonexistent-id"} : GenerateDoc(r, sessionID)
    \/ \E r \in DOMAIN gen, outcome \in {"ok", "error"} : WorkerLoad(r, outcome)
    \/ \E r \in DOMAIN gen, in \in BatchInputs : WorkerStep(r, in)
    \/ \E r \in DOMAIN gen : WorkerSend(r)
    \/ \E r \in DOMAIN gen : WorkerFinish(r)
    \/ \E r \in DOMAIN gen : HandlerReceive(r)
    \/ \E r \in DOMAIN gen, create \in {"ok", "error"} : HandlerBuild(r, create)
    \/ \E r \in DOMAIN gen : HandlerSaveRef(r)
    \/ \E r \in DOMAIN gen : HandlerComplete(r)
    \/ \E r \in DOMAIN gen : HandlerAbandon(r)

SpecBatch == InitBatch /\ [][NextBatch]_vars

\* the GenerateDoc requests of a run
RequestIDs == {1, 2}

\* whatever the worker goroutine of request r can do next
WorkerRuns(r) ==
    /\ r \in DOMAIN gen
    /\ \/ \E outcome \in {"ok", "error"} : WorkerLoad(r, outcome)
       \/ \E in \in BatchInputs : WorkerStep(r, in)
       \/ WorkerSend(r)
       \/ WorkerFinish(r)

\* A goroutine that can run does run: the worker goes on whenever the channel
\* has room, the handler takes an event whenever the channel holds one.
\* Nothing makes a client send a request or a reader give up, and nothing is
\* asked of the handler after the terminal event.
BatchFairness ==
    \A r \in RequestIDs :
        WF_vars(WorkerRuns(r)) /\ WF_vars(r \in DOMAIN gen /\ HandlerReceive(r))

SpecBatchFair == InitBatch /\ [][NextBatch]_vars /\ BatchFairness

\* ------------------------------------------------------------------ properties of batch generation
\* the worker of request r loaded the steps of the session
Loaded(r) ==
    r \in DOMAIN gen /\ gen[r].worker \in {"loop", "send", "final", "returned"}

\* the handler of request r wrote the terminal event to the client
TerminalDelivered(r) ==
    /\ r \in DOMAIN gen
    /\ gen[r].delivered # <<>>
    /\ gen[r].delivered[Len(gen[r].delivered)].Done

\* the reader of request r gave up
Gone(r) == r \in DOMAIN gen /\ gen[r].handler = "gone"

\* C15: a batch over a session with N steps sends N step events with current
\* 1..N in ascending order, each with total N and the id of the step just
\* processed, then one terminal event with done, total N and current and step
\* id unset, and nothing after it: N+1 events once the worker has returned.
C15_ProgressStream ==
    \A r \in DOMAIN gen :
        Loaded(r) =>
            LET n == Len(gen[r].loaded)
                sent == gen[r].sent
                rows == OrderedBy(1..Len(steps))
            IN  /\ n = Len(steps)
                /\ \A k \in 1..n : gen[r].loaded[k] = rows[k].ID
                /\ Len(sent) <= n + 1
                /\ gen[r].worker = "returned" => Len(sent) = n + 1
                /\ \A k \in 1..Len(sent) :
                      IF k <= n
                      THEN /\ ~sent[k].Done
                           /\ sent[k].Current = k
                           /\ sent[k].Total = n
                           /\ sent[k].StepID = gen[r].loaded[k]
                      ELSE /\ sent[k].Done
                           /\ sent[k].Total = n
                           /\ sent[k].Current = 0
                           /\ sent[k].StepID = <<>>

\* a finished batch over a session of several steps: one event more than steps
C15_Witness ==
    \E r \in DOMAIN gen :
        /\ gen[r].worker = "returned"
        /\ Len(gen[r].loaded) = MaxBatch
        /\ Len(gen[r].sent) = MaxBatch + 1
        /\ gen[r].sent[MaxBatch + 1].Done

\* C16: once the steps of the session are loaded, a reader that keeps reading
\* the channel is eventually handed the terminal event, after the events of
\* all steps, whatever the providers answer.
C16_TerminalEventDelivered ==
    \A r \in RequestIDs :
        [](Loaded(r) =>
             <>(Gone(r) \/ (TerminalDelivered(r)
                              /\ Len(gen[r].delivered) = Len(gen[r].loaded) + 1)))

\* the terminal event delivered after the events of all steps of a batch in
\* which no provider answered: every description written is the rule-based one
C16_Witness ==
    \E r \in DOMAIN gen :
        /\ TerminalDelivered(r)
        /\ Len(gen[r].loaded) >= 2
        /\ Len(gen[r].delivered) = Len(gen[r].loaded) + 1
        /\ \A k \in 1..Len(steps) :
              steps[k].AIDescription = ruleBasedDescription(requestOf(steps[k]))

\* C17: when the write of a step's description fails, the progress event of
\* that step has a non-empty error field, and the batch still goes on to the
\* terminal event.
C17_WriteFailureReported ==
    \A r \in DOMAIN gen :
        /\ \A k \in 1..Len(gen[r].sent) :
              gen[r].sent[k].StepID \in gen[r].writeFailed => gen[r].sent[k].Error # ""
        /\ gen[r].worker = "returned" => gen[r].sent[Len(gen[r].sent)].Done

\* the events the worker of request r has yet to send fit into the channel
RoomForTheRest(r) ==
    /\ r \in DOMAIN gen
    /\ LET n == IF gen[r].worker = "load" THEN Len(steps) ELSE Len(gen[r].loaded)
       IN  n + 1 - Len(gen[r].sent) <= ChanCap - Len(gen[r].ch)

\* the worker of request r returned
Returned(r) == r \in DOMAIN gen /\ gen[r].worker \in {"returned", "failed"}

\* C18 as stated: when the reader stops before the terminal event, the worker
\* still processes every remaining step and returns, however many steps the
\* session has.
C18_WorkerCompletesWhenAbandoned ==
    \A r \in RequestIDs : [](Gone(r) => <>Returned(r))

\* C18: when the reader stops before the terminal event and the events still
\* to be sent fit into the free room of the channel, the worker processes
\* every remaining step and returns.
C18_WorkerCompletesWhenRoom ==
    \A r \in RequestIDs :
        []((Gone(r) /\ RoomForTheRest(r)) =>
             <>(Returned(r) /\ (gen[r].worker = "returned" => gen[r].i = Len(gen[r].loaded))))

\* the reader of a long session gave up after a few events and the worker
\* returned all the same, leaving the channel full
C18_Witness ==
    \E r \in DOMAIN gen :
        /\ gen[r].handler = "gone"
        /\ gen[r].worker = "returned"
        /\ Len(gen[r].loaded) = LongSession
        /\ gen[r].i = LongSession
        /\ Len(gen[r].ch) = ChanCap

\* C20: after any sequence of saves, none of them under way, the session
\* refers to exactly one document, the one created last for it, and every
\* document a save created still exists.
C20_ReferenceNamesNewestDocument ==
    (docs # <<>> /\ \A r \in DOMAIN gen : gen[r].handler # "saving") =>
        /\ session.GeneratedDocID = docs[Len(docs)].ID
        /\ \A r \in DOMAIN gen :
              gen[r].docID # <<>> => \E k \in 1..Len(docs) : docs[k].ID = gen[r].docID

\* how often x occurs in the sequence sq
Count(sq, x) == Cardinality({k \in 1..Len(sq) : sq[k] = x})

apiGenerateStepDescription(stepID, probe) ==
    LET found == {k \in 1..Len(steps) : steps[k].ID = stepID}
        eff == effectiveCfg
    IN  /\ IF found = {}
           THEN /\ result' = [op |-> "describeStep", id |-> stepID, status |-> 404]
                /\ steps' = steps
           ELSE \E ret \in {run.ret : run \in runChain(chain(eff, probe), 1,
                                                      requestOf(stepRow(stepID)), eff, <<>>)} :
                   IF ret.err # ""
                   THEN /\ result' = [op |-> "describeStep", id |-> stepID, status |-> 500]
                        /\ steps' = steps
                   ELSE /\ result' = [op |-> "describeStep", id |-> stepID, status |-> 200,
                                      description |-> ret.resp.Description]
                        /\ steps' = [k \in 1..Len(steps) |->
                                       IF steps[k].ID = stepID
                                       THEN [steps[k] EXCEPT
                                               !.AIDescription = ret.resp.Description]
                                       ELSE steps[k]]
        /\ UNCHANGED <<cfg, llmProviders, upserts, project, session, screenshots, tieOrder,
                       genVars>>

\* the formats and views asked of the export
ExportFormats == {"md", "json", "pdf"}
ExportViews == {"business", "technical"}

\* ExportDocument: the session that refers to the document is looked up, its
\* document is built, and the build is rendered in the format asked for
ExportDocument(docID, format, viewType) ==
    /\ IF session = NoRow \/ session.GeneratedDocID # docID
       THEN result' = [op |-> "export", docID |-> docID, format |-> format,
                       view |-> viewType, status |-> 404]
       ELSE \E now \in Times, loaded \in {OrderedBy(1..Len(steps))} :
              \E content \in {documentOf(loaded, now)} :
                 result' = [op |-> "export", docID |-> docID, format |-> format,
                            view |-> viewType,
                            status |-> IF format \in {"md", "json"} THEN 200 ELSE 400,
                            content |-> content,
                            body |-> IF format = "md" THEN GenerateMarkdown(content, viewType)
                                     ELSE IF format = "json" THEN content
                                     ELSE <<>>]
    /\ UNCHANGED <<cfg, llmProviders, upserts, docVars, tieOrder, genVars>>

\* a recorded session of one step with a single GenerateDoc request
InitSession ==
    /\ InitBatch
    /\ Len(gen) = 1
    /\ Len(steps) = 1

\* every operation on the session's steps and documents: the first step is
\* edited or described at any time, the batch runs, and once a document is
\* saved one more step may be recorded and the document exported
NextSession ==
    \/ NextBatch
    \/ docs # <<>> /\ Len(steps) = 1 /\ CreateStep(RecordedRequest(Len(steps) + 1))
    \/ \E stepId \in UpdateTargets, req \in UpdateRequests : UpdateStep(stepId, req)
    \/ \E stepID \in {StepID(1), StepID(0)} : apiGenerateStepDescription(stepID, "timeout")
    \/ \E k \in 1..Len(docs), format \in ExportFormats, viewType \in ExportViews :
          ExportDocument(docs[k].ID, format, viewType)

SpecSession == InitSession /\ [][NextSession]_vars

\* ------------------------------------------------------------------ properties of the operations on a session
\* the columns of a step that are set when it is recorded
RecordedColumns ==
    {"ID", "SessionID", "StepIndex", "Timestamp", "Action", "TargetSelector", "TargetXPath",
     "TargetElement", "MaskedText", "InputValue", "PageURL", "PageTitle", "ScreenshotID",
     "IsMasked"}

\* C22: no step of any operation changes a column of an existing step other
\* than the description and the edited flag, and no step is lost.
C22_RecordedColumnsNeverChange ==
    [][/\ Len(steps') >= Len(steps)
       /\ \A k \in 1..Len(steps) :
             \A col \in RecordedColumns : steps'[k][col] = steps[k][col]]_vars

\* after an edit of the first step, a batch over the session and a step added
\* later, the document is exported
C22_Witness ==
    /\ Len(steps) > Len(gen[1].loaded)
    /\ steps[1].IsEdited
    /\ steps[1].AIDescription # <<>>
    /\ gen[1].worker = "returned"
    /\ Len(gen[1].writes) >= 1
    /\ result.op = "export"
    /\ result.status = 200

\* the document row stored under the id
savedDoc(docID) == docs[CHOOSE k \in 1..Len(docs) : docs[k].ID = docID]

\* C23: a successful export of a document id is the rendering of the views
\* stored under that id, whatever happened to the steps since the save.
C23_ExportRendersSavedSnapshot ==
    (result.op = "export" /\ result.status = 200) =>
        LET snapshot == [result.content EXCEPT
                           !.BusinessView = savedDoc(result.docID).BusinessView,
                           !.TechnicalView = savedDoc(result.docID).TechnicalView]
        IN  result.body = IF result.format = "md"
                          THEN GenerateMarkdown(snapshot, result.view)
                          ELSE snapshot

\* C28: a turn of the batch loop leaves the description of every step alone
\* that had one when the batch loaded the steps.
C28_BatchKeepsExistingDescriptions ==
    [][\A r \in DOMAIN gen :
          (gen[r].worker = "loop" /\ gen'[r].worker = "send") =>
             \A k \in 1..Len(gen[r].loaded) :
                gen[r].loadedText[k] # <<>> =>
                   \A j \in 1..Len(steps) :
                      steps[j].ID = gen[r].loaded[k] =>
                         steps'[j].AIDescription = steps[j].AIDescription]_vars

\* ------------------------------------------------------------------ ruleBasedDescription on its own
\* the requests the template is applied to: every action kind of the table,
\* one that is not in it and none at all, with and without a masked text and
\* a target text, on two pages
RuleRequests ==
    {[StepAction |-> a, TargetElement |-> t, PageURL |-> "http://gov/login",
      PageTitle |-> p, MaskedText |-> m, ScreenshotB64 |-> ""] :
        a \in DOMAIN actionMap \cup {"tap", ""},
        t \in {<<>>, <<"an", "niu">>},
        p \in {<<"deng", "lu", "ye">>, <<>>},
        m \in {<<>>, <<"deng", "lu">>, <<"[name]">>}}

\* the rule-based text of a request, as GenerateStepDescription obtains it
\* when the chain gave nothing
applyRuleBasedDescription(req) ==
    /\ result' = [op |-> "ruleBased", req |-> req, description |-> ruleBasedDescription(req)]
    /\ UNCHANGED <<cfg, llmProviders, upserts, docVars, tieOrder, genVars>>

InitRule == InitRouter

NextRule == \E req \in RuleRequests : applyRuleBasedDescription(req)

SpecRule == InitRule /\ [][NextRule]_vars

\* the verb the template uses for an action kind
VerbFor(action) ==
    CASE action = "click" -> <<"dian", "ji">>
      [] action = "input" -> <<"shu", "ru">>
      [] action = "select" -> <<"xuan", "ze">>
      [] action = "drag" -> <<"tuo", "zhuai">>
      [] action = "navigation" -> <<"dao", "hang", "zhi">>
      [] action = "scroll" -> <<"gun", "dong">>
      [] action = "hover" -> <<"xuan", "ting", "zai">>
      [] OTHER -> IF action = "" THEN <<>> ELSE <<action>>

\* C24: the rule-based description is "zai[<page title>]ye mian,<verb>[<masked
\* text>]" when the masked text is not empty and "zai[<page title>]ye
\* mian,<verb> <target element>" otherwise, the verb being the table entry of
\* the action kind or, for a kind the table lacks, the kind itself.
C24_RuleBasedTemplate ==
    result.op = "ruleBased" =>
        LET req == result.req
            head == <<"zai", "[">> \o req.PageTitle \o <<"]", "ye", "mian", ",">>
                       \o VerbFor(req.StepAction)
        IN  result.description =
               IF Len(req.MaskedText) > 0
               THEN head \o <<"[">> \o req.MaskedText \o <<"]">>
               ELSE head \o <<" ">> \o req.TargetElement

\* a click on the login page with the masked text "deng lu"
C24_Witness ==
    /\ result.op = "ruleBased"
    /\ result.req.StepAction = "click"
    /\ result.req.PageTitle = <<"deng", "lu", "ye">>
    /\ result.req.MaskedText = <<"deng", "lu">>
    /\ result.description = <<"zai", "[", "deng", "lu", "ye", "]", "ye", "mian", ",",
                              "dian", "ji", "[", "deng", "lu", "]">>

\* ------------------------------------------------------------------ the description of a business entry
\* C25: the business entry of a run of one step has the step's description as
\* it is when that is not empty, else the step's target text when that is not
\* empty, else a phrase naming the page title and the action; it is never
\* empty.
C25_SingleStepEntryDescription ==
    Built =>
        LET loaded == result.loaded
            starts == RunStarts(loaded)
        IN  \A k \in 1..Cardinality(starts) :
               RunFirst(starts, k) = RunLast(starts, Len(loaded), k) =>
                  LET s == loaded[RunFirst(starts, k)]
                      desc == BizSteps[k].Description
                  IN  /\ desc # <<>>
                      /\ IF s.AIDescription # <<>> THEN desc = s.AIDescription
                         ELSE IF s.TargetElement # <<>> THEN desc = s.TargetElement
                         ELSE /\ Contains(desc, s.PageTitle)
                              /\ Contains(desc, WordText(s.Action))

\* a document with three entries of one step each: one shows the description
\* written by hand, one the target text, one the synthesized phrase
C25_Witness ==
    /\ Built
    /\ Len(BizSteps) = Len(result.loaded)
    /\ \E a, b, c \in 1..Len(BizSteps) :
          /\ result.loaded[a].AIDescription # <<>>
          /\ BizSteps[a].Description = result.loaded[a].AIDescription
          /\ result.loaded[b].AIDescription = <<>>
          /\ result.loaded[b].TargetElement # <<>>
          /\ BizSteps[b].Description = result.loaded[b].TargetElement
          /\ result.loaded[c].AIDescription = <<>>
          /\ result.loaded[c].TargetElement = <<>>
          /\ BizSteps[c].Description # <<>>

\* ------------------------------------------------------------------ the document of a single run
\* the verb phrases a target text may hold, alone or two at once
RunPhrases ==
    {<<"zai">>, <<"dian", "ji", "le">>, <<"xuan", "ze", "le">>, <<"qie", "huan", "dao">>,
     <<"dian", "ji", "le", "xuan", "ze", "le">>, <<"xuan", "ze", "le", "qie", "huan", "dao">>}

\* what varies between the steps of the run: the phrase before the component,
\* the tail after it and the action kind.  Every phrase comes with the action
\* kind "hover", two of them also with the tail of an input, and the text
\* without a phrase with the action kinds the builder knows.
RunShapes ==
    {[phrase |-> p, tail |-> <<>>, action |-> "hover"] : p \in RunPhrases}
        \cup {[phrase |-> p, tail |-> InputTail, action |-> "hover"] :
                p \in {<<"zai">>, <<"qie", "huan", "dao">>}}
        \cup {[phrase |-> <<"zai">>, tail |-> <<>>, action |-> a] :
                a \in {"click", "input", "select"}}

\* the body of the POST for a step of the run, in the form area of page A
RunRequest(shape) ==
    [StepIndex |-> 0, Action |-> shape.action, TargetSelector |-> <<"#", "field">>,
     TargetXPath |-> <<"/", "input">>,
     TargetElement |->
         Semantic(PageA, FormArea, shape.phrase,
                  IF shape.tail = <<>> THEN <<"xing", "ming">> ELSE <<"dian", "hua">>,
                  shape.tail,
                  IF shape.action = "hover" THEN <<"tian", "xie", "xin", "xi">>
                  ELSE <<"ti", "jiao", "biao", "dan">>),
     MaskedText |-> <<>>, PageURL |-> <<"http://gov/apply">>, PageTitle |-> PageA,
     ScreenshotDataURL |-> <<>>, Timestamp |-> 1700000000, InputValue |-> <<>>,
     IsMasked |-> FALSE]

\* the tables after CreateStep stored the bodies of the shapes one by one
RECURSIVE RecordedRun(_)
RecordedRun(shapes) ==
    IF shapes = <<>> THEN [steps |-> <<>>, screenshots |-> <<>>]
    ELSE recordStep(RecordedRun(SubSeq(shapes, 1, Len(shapes) - 1)),
                    RunRequest(shapes[Len(shapes)]))

\* a session of two or three steps, all in the form area of one page
InitRun ==
    /\ cfg \in {c \in EnvConfigs : \A n \in ProviderSet : c[n].APIKey = ""}
    /\ llmProviders = [n \in ProviderSet |-> NoRow]
    /\ upserts = 0
    /\ project = [ID |-> "project-1", Name |-> <<"zheng", "wu">>]
    /\ session = [ID |-> SessionID, ProjectID |-> "project-1",
                  Title |-> <<"shen", "qing", "liu", "cheng">>, Status |-> "recording",
                  GeneratedDocID |-> <<>>]
    /\ \E a, b \in RunShapes, c \in RunShapes \cup {NoRow} :
          steps = RecordedRun(IF c = NoRow THEN <<a, b>> ELSE <<a, b, c>>).steps
    /\ screenshots = <<>>
    /\ result = [op |-> "init"]
    /\ tieOrder = "rowid"
    /\ docs = <<>>
    /\ gen = <<>>

NextRun == BuildDocument(SessionID)

SpecRun == InitRun /\ [][NextRun]_vars

\* the verb of a step by the priority of the phrases found in its text
VerbByPriority(s) ==
    IF Contains(s.TargetElement, <<"lu", "ru", "le">>) THEN <<"lu", "ru">>
    ELSE IF Contains(s.TargetElement, <<"qie", "huan", "dao">>) THEN <<"qie", "huan", "dao">>
    ELSE IF Contains(s.TargetElement, <<"xuan", "ze", "le">>) THEN <<"xuan", "ze">>
    ELSE IF Contains(s.TargetElement, <<"dian", "ji", "le">>) THEN <<"dian", "ji">>
    ELSE IF s.Action = "click" THEN <<"dian", "ji">>
    ELSE IF s.Action = "input" THEN <<"lu", "ru">>
    ELSE IF s.Action = "select" THEN <<"xuan", "ze">>
    ELSE <<"cao", "zuo">>

\* sq ends with the sequence tail
EndsWith(sq, tail) ==
    /\ Len(sq) >= Len(tail)
    /\ SubSeq(sq, Len(sq) - Len(tail) + 1, Len(sq)) = tail

\* C26: the business entry of a run of several steps is one sentence that
\* lists, in step order and joined by "dun", one item of verb and component per
\* step, the verb taken by the priority "lu ru le" > "qie huan dao" > "xuan ze
\* le" > "dian ji le" from the step's text or else from its action kind, and
\* that ends with the purpose of the last step of the run.
C26_MergedEntrySentence ==
    Built =>
        LET loaded == result.loaded
            starts == RunStarts(loaded)
        IN  \A k \in 1..Cardinality(starts) :
               LET first == RunFirst(starts, k)
                   last == RunLast(starts, Len(loaded), k)
                   items == [i \in 1..(last - first + 1) |->
                               VerbByPriority(loaded[first + i - 1]) \o <<" ", "[[">>
                                  \o compNameOf(loaded[first + i - 1].TargetElement)
                                  \o <<"]]">>]
                   desc == BizSteps[k].Description
               IN  first < last =>
                      /\ Contains(desc, <<"yi", "ci", " ">> \o Join(items, <<"dun">>)
                                           \o <<",", "zui", "zhong", "shi", "xian", " ">>)
                      /\ Cardinality({j \in 1..Len(desc) : desc[j] = "dun"}) = last - first
                      /\ EndsWith(desc, <<"shi", "xian", " ">>
                                           \o purposeOf(loaded[last].TargetElement) \o <<".">>)

\* a run of three steps whose texts hold two phrases at once or none, with
\* different purposes at its ends
C26_Witness ==
    /\ Built
    /\ Len(result.loaded) = 3
    /\ Len(BizSteps) = 1
    /\ Contains(result.loaded[1].TargetElement, <<"xuan", "ze", "le", "qie", "huan", "dao">>)
    /\ Contains(result.loaded[2].TargetElement, <<"lu", "ru", "le">>)
    /\ result.loaded[3].Action = "select"
    /\ purposeOf(result.loaded[1].TargetElement) # purposeOf(result.loaded[3].TargetElement)
    /\ Contains(BizSteps[1].Description,
                <<"qie", "huan", "dao", " ", "[[", "xing", "ming", "]]", "dun", "lu", "ru", " ",
                  "[[", "dian", "hua", "]]", "dun", "xuan", "ze", " ", "[[", "xing", "ming", "]]">>)

\* ------------------------------------------------------------------ the order of a batch run
\* the step events request r has sent
StepEventsSent(r) == Len(gen[r].sent) - (IF gen[r].worker = "returned" THEN 1 ELSE 0)

\* C27: a batch handles the steps one at a time in ascending step index: the
\* steps are loaded in that order, the description writes and the events
\* follow it, and the provider chain is called for the next step only when
\* the write and the event of the step before are done, so that never more
\* than one step is between its call and its event.
C27_OneStepAtATime ==
    \A r \in DOMAIN gen :
        Loaded(r) =>
            LET loaded == gen[r].loaded
                writes == gen[r].writes
                done == StepEventsSent(r)
            IN  /\ \A k \in 1..(Len(loaded) - 1) :
                      stepRow(loaded[k]).StepIndex <= stepRow(loaded[k + 1]).StepIndex
                /\ \A k \in 1..done : gen[r].sent[k].StepID = loaded[k]
                /\ \A k \in 1..Len(writes) : writes[k] = loaded[k]
                /\ gen[r].i = done
                /\ IF gen[r].worker = "send"
                   THEN /\ Len(writes) = done + 1
                        /\ gen[r].pending.StepID = loaded[done + 1]
                   ELSE /\ Len(writes) = done
                        /\ gen[r].pending = NoRow

\* the second step of a batch is between its call and its event: the first
\* step has its description and its event, a later step has neither
C27_Witness ==
    \E r \in DOMAIN gen :
        /\ gen[r].worker = "send"
        /\ Len(gen[r].loaded) > 2
        /\ gen[r].i = 1
        /\ Len(gen[r].sent) = 1
        /\ gen[r].writes = <<gen[r].loaded[1], gen[r].loaded[2]>>
        /\ stepRow(gen[r].loaded[3]).AIDescription = <<>>

\* ------------------------------------------------------------------ the order of the generate endpoint
\* the document request r created is stored
DocumentStored(r) == \E k \in 1..Len(docs) : docs[k].ID = gen[r].docID

\* C29: a request builds and saves its document only after it received the
\* terminal event, hence after the description write of every step of its
\* batch; the status of the session is "completed" only after a document was
\* saved and referred to; and the "complete" event names a document whose
\* save succeeded.
C29_BuildAfterDoneCompleteAfterSave ==
    /\ \A r \in DOMAIN gen :
          /\ (gen[r].handler \in {"building", "saving", "completing", "done"}
                \/ gen[r].docID # <<>>) =>
                /\ TerminalDelivered(r)
                /\ gen[r].worker = "returned"
                /\ Len(gen[r].writes) = Len(gen[r].loaded)
          /\ gen[r].handler \in {"completing"} \/ gen[r].complete # <<>> =>
                /\ gen[r].docID # <<>>
                /\ DocumentStored(r)
                /\ session.GeneratedDocID # <<>>
          /\ gen[r].complete # <<>> =>
                /\ gen[r].complete = gen[r].docID
                /\ session.Status = "completed"
    /\ session.Status = "completed" =>
          \E r \in DOMAIN gen :
             /\ gen[r].docID # <<>>
             /\ DocumentStored(r)
             /\ gen[r].handler \in {"completing", "done"}
             /\ session.GeneratedDocID # <<>>

\* a request over several steps wrote its "complete" event
C29_Witness ==
    \E r \in DOMAIN gen :
        /\ gen[r].complete # <<>>
        /\ Len(gen[r].loaded) = MaxBatch
        /\ Len(gen[r].delivered) = MaxBatch + 1
        /\ session.Status = "completed"
        /\ session.GeneratedDocID = gen[r].complete

\* C30: the loop in which the generate endpoint reads progressCh ends in
\* every execution, also when the worker could not load the steps and
\* returned without sending any event.
C30_ReadingLoopTerminates ==
    \A r \in RequestIDs :
        []((r \in DOMAIN gen /\ gen[r].handler = "reading")
              => <>(r \in DOMAIN gen /\ gen[r].handler # "reading"))

====
